---- MODULE Spec2Model ----
(***************************************************************************)
(* Sagemcom exporter (src/script.py): the polling loop update_metrics_loop *)
(* and the collectors it awaits one after the other, writing into the      *)
(* module-level Prometheus gauges that the exporter thread serves.         *)
(***************************************************************************)
EXTENDS Integers, Sequences, FiniteSets, TLC

\* ------------------------------------------------------------------ bounds
\* longest host table, port-mapping table and radio table the router returns
MaxHosts == 2
MaxMappings == 2
MaxRadios == 2
\* how many collection periods of wall-clock time a run is followed for
MaxPeriods == 3
MaxPeriodsLong == 14
\* largest round-trip time of the probe
MaxPing == 2

\* ------------------------------------------------------- program constants
COLLECTION_INTERVAL == 300
speedtest_interval_seconds == 3600

\* time.time() at process start: any wall clock later than one speedtest
\* interval after the epoch behaves alike
StartTime == speedtest_interval_seconds
\* granularity of the model's clock
Quantum == COLLECTION_INTERVAL

\* last_speedtest_time initialised with time.time()
LastSpeedtestIsStart == StartTime

\* last_speedtest_time = 0 at import
InitialLastSpeedtestTime == 0

\* ------------------------------------------------------------ Python values
\* Optional values: None, or one wrapped value
None == <<>>
Some(v) == <<v>>

\* float('nan') and a finite float, as exported by a gauge that can hold both
NaN == [nan |-> TRUE]
Num(n) == [nan |-> FALSE, v |-> n]

\* str(int) for a non-negative int
Digit(n) == CASE n = 0 -> "0" [] n = 1 -> "1" [] n = 2 -> "2" [] n = 3 -> "3"
              [] n = 4 -> "4" [] n = 5 -> "5" [] n = 6 -> "6" [] n = 7 -> "7"
              [] n = 8 -> "8" [] n = 9 -> "9"
RECURSIVE IntStr(_)
IntStr(n) == IF n < 10 THEN Digit(n) ELSE IntStr(n \div 10) \o Digit(n % 10)

\* str(x) of an Optional[int] / Optional[str]
StrOptInt(o) == IF o = None THEN "None" ELSE IntStr(o[1])
StrOptStr(o) == IF o = None THEN "None" ELSE o[1]
\* x or "unknown" for an Optional[str]
OrUnknown(o) == IF o = None \/ o = Some("") THEN "unknown" ELSE o[1]

\* dict.get(key, default) on a dict held as [dict |-> TRUE, kv |-> function]
Get(m, k, dflt) == IF k \in DOMAIN m.kv THEN m.kv[k] ELSE dflt

\* --------------------------------------------------------- labelled gauges
\* a labelled gauge is a function from label tuples to values
Empty == [l \in {} |-> 0]
\* gauge.labels(l): the child is created with value 0 unless it exists
Labels(g, l) == [x \in DOMAIN g \cup {l} |-> IF x \in DOMAIN g THEN g[x] ELSE 0]
\* a set() that leaves an existing child as it is
PutFirstWins(g, l, v) == [x \in DOMAIN g \cup {l} |-> IF x \in DOMAIN g THEN g[x] ELSE v]
\* gauge.labels(l).set(v) with a numeric v
Put(g, l, v) == [x \in DOMAIN g \cup {l} |-> IF x = l THEN v ELSE g[x]]
\* gauge.labels(l).set(o) with an Optional number: float(None) raises after
\* labels() has created the child
PutOpt(g, l, o) == IF o = None THEN Labels(g, l) ELSE Put(g, l, o[1])

\* --------------------------------------------------- what the router returns
HostIds == {"A", "B"}

Host(id, name, active, lease_start) ==
    [id |-> id, name |-> name, host_name |-> Some("host"),
     interface_type |-> Some("Ethernet"), active |-> active,
     lease_start |-> lease_start, lease_duration |-> Some(60),
     lease_time_remaining |-> Some(30), phys_address |-> Some(id),
     alias |-> name, ip_address |-> None, layer1_interface |-> Some(""),
     layer3_interface |-> Some("IP"), blacklisted |-> FALSE,
     blacklisted_schedule |-> None]

\* the hosts a table is made of: two identifiers, one of them under two names,
\* both activity states, and a lease whose start the router left unset
HostTable ==
    { Host("A", Some("x"), TRUE, Some(10)), Host("A", Some("x"), FALSE, Some(10)),
      Host("A", Some("y"), TRUE, Some(10)), Host("B", Some("x"), FALSE, Some(10)),
      Host("B", Some("x"), TRUE, None) }

RECURSIVE SeqsUpTo(_, _)
SeqsUpTo(S, n) ==
    IF n = 0 THEN {<<>>}
    ELSE LET shorter == SeqsUpTo(S, n - 1)
         IN  shorter \cup {Append(s, x) : s \in shorter, x \in S}

HostLists == SeqsUpTo(HostTable, MaxHosts)
NominalHosts == <<Host("A", Some("x"), TRUE, Some(10)), Host("B", Some("x"), FALSE, Some(10))>>

DevInfo(up_time, reboot_count) ==
    [mac_address |-> "R", build_date |-> "2020", model_name |-> "F3896",
     serial_number |-> "S1", software_version |-> "1.0",
     up_time |-> up_time, reboot_count |-> reboot_count]
DeviceInfos == {DevInfo(Some(100), Some(1)), DevInfo(Some(200), None)}
NominalInfo == DevInfo(Some(100), Some(1))

\* entries of Device/NAT/PortMappings: dicts, one without any key, and an entry
\* that is no dict
Dict(kv) == [dict |-> TRUE, kv |-> kv]
NotADict == [dict |-> FALSE, kv |-> Empty]
Mapping(ext, enabled) ==
    Dict([external_port |-> ext, internal_port |-> "8080", protocol |-> "TCP",
          enabled |-> enabled])
MappingTable == {Mapping("80", TRUE), Mapping("443", FALSE), Dict(Empty), NotADict}
\* the response: None (path unsupported) or a list
PortMappingResponses == {None} \cup {Some(l) : l \in SeqsUpTo(MappingTable, MaxMappings)}
NominalMappings == Some(<<Mapping("80", TRUE)>>)

Radio(channel, signal) == Dict([channel |-> channel, signal_strength |-> signal])
RadioTable == {Radio(6, -50), Dict(Empty), NotADict}
WifiResponses == {None} \cup {Some(l) : l \in SeqsUpTo(RadioTable, MaxRadios)}
NominalRadios == Some(<<Radio(6, -50)>>)

\* what api.ipify.org answers: the request raises, the status is an error, or
\* a JSON body arrives, with or without 'ip'
LookupResponses ==
    {[kind |-> k, body |-> Dict(Empty)] : k \in {"exception", "http_error", "json"}}
    \cup {[kind |-> "json", body |-> Dict([ip |-> a])] : a \in {"", "1.1.1.1", "2.2.2.2"}}
NominalLookup == [kind |-> "json", body |-> Dict([ip |-> "1.1.1.1"])]

\* ping3.ping(): the delay, None on timeout, False on an error such as an
\* unknown host, or an exception
PingResults ==
    {[kind |-> "time", t |-> t] : t \in 1..MaxPing}
    \cup {[kind |-> k, t |-> 0] : k \in {"none", "false", "raise"}}

\* a speedtest run: it raises at one of its three stages, or yields the three
\* measurements (bits per second, bits per second, milliseconds)
SpeedResults ==
    {[ok |-> FALSE, stage |-> s, download |-> 0, upload |-> 0, ping |-> 0] :
        s \in {"server", "download", "upload"}}
    \cup {[ok |-> TRUE, stage |-> "done", download |-> d, upload |-> 20000000, ping |-> 15] :
        d \in {50000000, 90000000}}
NominalSpeed == [ok |-> TRUE, stage |-> "done", download |-> 50000000,
                 upload |-> 20000000, ping |-> 15]

\* what the environment of one specification may answer: the responses of each
\* upstream call, the calls that may raise, the steps during which wall-clock
\* time may pass, and the end of the observed run
Env(hosts, infos, pm, wifi, ip, ping, speed, faults, stall, periods) ==
    [hosts |-> hosts, infos |-> infos, pm |-> pm, wifi |-> wifi, ip |-> ip,
     ping |-> ping, speed |-> speed, faults |-> faults, stall |-> stall,
     horizon |-> StartTime + periods * COLLECTION_INTERVAL]

\* -------------------------------------------------------------------- state
VARIABLES
    pc,                         \* position of the loop
    now,                        \* wall clock, seconds
    device_uptime_gauge, device_reboot_count_gauge, modem_info,
    connected_devices_gauge,
    device_status_gauge, device_lease_gauge, device_info_gauge,
    port_mapping_gauge,
    wifi_radio_signal_gauge, wifi_radio_channel_gauge,
    public_ip_info,
    google_ping_gauge,
    speedtest_download_gauge, speedtest_upload_gauge, speedtest_ping_gauge,
    last_speedtest_time, last_pull_time, next_pull_time,
    devices, port_mappings, wifi_radios, idx, current_time,
    \* history, not program state
    steps,                      \* the calls made in the current cycle, in order
    failed,                     \* the collectors whose poll failed in this cycle
    prev,                       \* the families as the current cycle found them
    lastGood,                   \* the families as their last successful poll made them
    inflight,                   \* polls started and not yet finished, per collector
    completed,                  \* when each collector's last poll finished
    probe,                      \* what the last latency probe returned
    lastGoodIp,                 \* the address of the last successful lookup
    snapshot,                   \* what the last scrape of the exporter thread read
    started,                    \* when each collector's last poll began, 0 if never
    polled                      \* the data of each table's last poll, None if it failed

deviceScalars == <<device_uptime_gauge, device_reboot_count_gauge, modem_info>>
deviceFamilies == <<connected_devices_gauge, device_status_gauge, device_lease_gauge,
                    device_info_gauge>>
mappingVars == <<port_mapping_gauge, port_mappings>>
wifiVars == <<wifi_radio_signal_gauge, wifi_radio_channel_gauge, wifi_radios>>
ipVars == <<public_ip_info, last_pull_time, next_pull_time, lastGoodIp>>
pingVars == <<google_ping_gauge, probe>>
speedGauges == <<speedtest_download_gauge, speedtest_upload_gauge, speedtest_ping_gauge>>
speedVars == <<speedGauges, last_speedtest_time, current_time>>

vars == <<pc, now, deviceScalars, deviceFamilies, mappingVars, wifiVars, ipVars,
          pingVars, speedVars, devices, idx, steps, failed, prev, lastGood,
          inflight, completed, snapshot, started, polled>>

Collectors == {"device", "portmap", "wifi", "pubip", "ping", "speedtest"}
\* the collectors that replace labelled families from a table
Tables == {"device", "portmap", "wifi"}

\* the labelled families as a scrape reads them
Families ==
    [status |-> device_status_gauge, lease |-> device_lease_gauge,
     info |-> device_info_gauge, mappings |-> port_mapping_gauge,
     signal |-> wifi_radio_signal_gauge, channel |-> wifi_radio_channel_gauge]
FamilyNames == {"status", "lease", "info", "mappings", "signal", "channel"}
NoSeries == [f \in FamilyNames |-> Empty]

Init ==
    /\ pc = "open"
    /\ now = StartTime
    /\ device_uptime_gauge = 0
    /\ device_reboot_count_gauge = 0
    /\ modem_info = None
    /\ connected_devices_gauge = 0
    /\ device_status_gauge = Empty
    /\ device_lease_gauge = Empty
    /\ device_info_gauge = Empty
    /\ port_mapping_gauge = Empty
    /\ wifi_radio_signal_gauge = Empty
    /\ wifi_radio_channel_gauge = Empty
    /\ public_ip_info = None
    /\ google_ping_gauge = Num(0)
    /\ speedtest_download_gauge = 0
    /\ speedtest_upload_gauge = 0
    /\ speedtest_ping_gauge = 0
    /\ last_speedtest_time = InitialLastSpeedtestTime
    /\ last_pull_time = None
    /\ next_pull_time = None
    /\ devices = <<>>
    /\ port_mappings = <<>>
    /\ wifi_radios = <<>>
    /\ idx = 0
    /\ current_time = 0
    /\ steps = <<>>
    /\ failed = {}
    /\ prev = NoSeries
    /\ lastGood = NoSeries
    /\ inflight = [c \in Collectors |-> 0]
    /\ completed = [c \in Collectors |-> 0]
    /\ probe = None
    /\ lastGoodIp = None
    /\ snapshot = NoSeries
    /\ started = [c \in Collectors |-> 0]
    /\ polled = [c \in Tables |-> None]

Begin(c) == [inflight EXCEPT ![c] = @ + 1]
End(c) == [inflight EXCEPT ![c] = @ - 1]
Start(c) == [started EXCEPT ![c] = now]
PollOk(c, data) == [polled EXCEPT ![c] = Some(data)]
PollFailed(c) == [polled EXCEPT ![c] = None]

\* ----------------------------------------------------------- pure functions
\* fetch_public_ip(): resp.json().get('ip'), or None after any exception
FetchPublicIp(r) ==
    IF r.kind = "json" /\ "ip" \in DOMAIN r.body.kv THEN Some(r.body.kv.ip) ELSE None

\* `if public_ip is not None:` in place of the truth test
TruthyNotNone(o) == o # None

\* `if public_ip:` on an Optional[str]
Truthy(o) == o # None /\ o # Some("")

\* ping_google(): the value the gauge holds after a probe. Only None takes the
\* else branch; False is multiplied like a number (False * 1000 == 0)
PingValue(r) == IF r.kind = "false" THEN 0 ELSE r.t
PingExport(r) ==
    IF r.kind = "raise" THEN NaN
    ELSE IF r.kind # "none" THEN Num(PingValue(r) * 1000)
    ELSE NaN

\* the comparison of update_metrics_loop
SpeedtestDue(t, last) == t - last >= speedtest_interval_seconds

\* labels of one host in sagemcom_device_status and sagemcom_connected_device_info
StatusLabels(d) ==
    <<d.id, StrOptStr(d.name), StrOptStr(d.host_name), StrOptStr(d.interface_type)>>
InfoLabels(d) ==
    <<OrUnknown(d.phys_address), OrUnknown(d.alias), OrUnknown(d.ip_address),
      OrUnknown(d.host_name), IF d.active THEN "Active" ELSE "Inactive",
      OrUnknown(d.interface_type), StrOptInt(d.lease_time_remaining),
      OrUnknown(d.layer1_interface), OrUnknown(d.layer3_interface),
      IF d.blacklisted THEN "True" ELSE "False",
      IF d.blacklisted_schedule = None THEN "[]" ELSE d.blacklisted_schedule[1]>>
Bit(b) == IF b THEN 1 ELSE 0

\* one iteration of the host loop on the three device families: the writes it
\* makes, up to the first set() that raises
HostWrite(st, le, inf, d) ==
    LET st1 == Put(st, StatusLabels(d), Bit(d.active))
        le1 == PutOpt(le, <<d.id, "lease_start">>, d.lease_start)
        le2 == PutOpt(le1, <<d.id, "lease_duration">>, d.lease_duration)
        le3 == PutOpt(le2, <<d.id, "lease_remaining">>, d.lease_time_remaining)
    IN  IF d.lease_start = None
          THEN [status |-> st1, lease |-> le1, info |-> inf, raised |-> TRUE]
        ELSE IF d.lease_duration = None
          THEN [status |-> st1, lease |-> le2, info |-> inf, raised |-> TRUE]
        ELSE IF d.lease_time_remaining = None
          THEN [status |-> st1, lease |-> le3, info |-> inf, raised |-> TRUE]
        ELSE [status |-> st1, lease |-> le3,
              info |-> Put(inf, InfoLabels(d), Bit(d.active)), raised |-> FALSE]

ActiveCount(hl) == Cardinality({k \in 1..Len(hl) : hl[k].active})

MappingLabels(m) ==
    <<Get(m, "external_port", "unknown"), Get(m, "internal_port", "unknown"),
      Get(m, "protocol", "unknown"),
      IF Get(m, "enabled", FALSE) THEN "active" ELSE "inactive">>

\* `if not x:` on an Optional[list]
Falsy(o) == o = None \/ o[1] = <<>>

\* a clear() that drops one child only, like gauge.remove(*labels)
ClearOne(g) ==
    IF g = Empty THEN g
    ELSE LET l == CHOOSE x \in DOMAIN g : TRUE
         IN  [x \in DOMAIN g \ {l} |-> g[x]]

\* gauge.clear(): every child of the family is dropped
Clear(g) == Empty

\* last_speedtest_time moved inside the try block, after the three set()
RecordedOnSuccess(r, cur, last) == IF r.ok THEN cur ELSE last

\* last_speedtest_time = current_time, after run_speedtest() has returned
\* whatever its outcome
RecordedAttempt(r, cur, last) == cur

\* ------------------------------------------------------------------ actions
\* an except clause around the login alone, after which the data calls go on
DeviceFailedContinue ==
    /\ pc' = "devinfo"
    /\ failed' = failed \cup {"device"}
    /\ polled' = PollFailed("device")

\* the except clause of collect_sagemcom_metrics: the error is printed and the
\* session is left
DeviceFailed ==
    /\ pc' = "close"
    /\ failed' = failed \cup {"device"}
    /\ polled' = PollFailed("device")

\* async with SagemcomClient(...) as client: a new cycle starts
SessionOpen(E) ==
    /\ pc = "open"
    /\ steps' = <<"open">>
    /\ prev' = Families
    /\ started' = Start("device")
    /\ \/ /\ pc' = "login"
          /\ failed' = {}
          /\ inflight' = Begin("device")
          /\ UNCHANGED polled
       \/ /\ "open" \in E.faults
          /\ pc' = "crashed"
          /\ failed' = {"device"}
          /\ polled' = PollFailed("device")
          /\ UNCHANGED inflight
    /\ UNCHANGED <<now, deviceScalars, deviceFamilies, mappingVars, wifiVars, ipVars,
                   pingVars, speedVars, devices, idx, lastGood, completed, snapshot>>

\* await client.login()
Login(E) ==
    /\ pc = "login"
    /\ steps' = Append(steps, "login")
    /\ \/ pc' = "devinfo" /\ UNCHANGED <<failed, polled>>
       \/ "login" \in E.faults /\ DeviceFailed
    /\ UNCHANGED <<now, deviceScalars, deviceFamilies, mappingVars, wifiVars, ipVars,
                   pingVars, speedVars, devices, idx, prev, lastGood, inflight,
                   completed, snapshot, started>>

\* await client.get_device_info() and the three scalar updates
DeviceInfo(E) ==
    /\ pc = "devinfo"
    /\ steps' = Append(steps, "devinfo")
    /\ \/ "devinfo" \in E.faults /\ DeviceFailed /\ UNCHANGED deviceScalars
       \/ \E info \in E.infos :
            IF info.up_time = None
              THEN DeviceFailed /\ UNCHANGED deviceScalars
            ELSE /\ device_uptime_gauge' = info.up_time[1]
                 /\ IF info.reboot_count = None
                      THEN /\ DeviceFailed
                           /\ UNCHANGED <<device_reboot_count_gauge, modem_info>>
                    ELSE /\ device_reboot_count_gauge' = info.reboot_count[1]
                         /\ modem_info' =
                              Some([device_id |-> info.mac_address,
                                    build_date |-> info.build_date,
                                    model_name |-> info.model_name,
                                    serial_number |-> info.serial_number,
                                    software_version |-> info.software_version])
                         /\ pc' = "hosts"
                         /\ UNCHANGED <<failed, polled>>
    /\ UNCHANGED <<now, deviceFamilies, mappingVars, wifiVars, ipVars, pingVars,
                   speedVars, devices, idx, prev, lastGood, inflight, completed,
                   snapshot, started>>

\* await client.get_hosts(), the count of active hosts and the three clear()
GetHosts(E) ==
    /\ pc = "hosts"
    /\ steps' = Append(steps, "hosts")
    /\ \/ /\ "hosts" \in E.faults
          /\ DeviceFailed
          /\ UNCHANGED <<deviceFamilies, devices, idx, lastGood>>
       \/ \E hl \in E.hosts :
            /\ devices' = hl
            /\ connected_devices_gauge' = ActiveCount(hl)
            /\ device_status_gauge' = Clear(device_status_gauge)
            /\ device_lease_gauge' = Clear(device_lease_gauge)
            /\ device_info_gauge' = Clear(device_info_gauge)
            /\ UNCHANGED failed
            /\ IF hl = <<>>
                 THEN /\ pc' = "portmap"
                      /\ idx' = 0
                      /\ lastGood' = [lastGood EXCEPT !.status = Empty,
                                         !.lease = Empty, !.info = Empty]
                      /\ polled' = PollOk("device", hl)
               ELSE /\ pc' = "hostloop"
                    /\ idx' = 1
                    /\ UNCHANGED <<lastGood, polled>>
    /\ UNCHANGED <<now, deviceScalars, mappingVars, wifiVars, ipVars, pingVars,
                   speedVars, prev, inflight, completed, snapshot, started>>

\* one iteration of `for d in devices`
HostStep ==
    /\ pc = "hostloop"
    /\ LET w == HostWrite(device_status_gauge, device_lease_gauge,
                          device_info_gauge, devices[idx])
       IN  /\ device_status_gauge' = w.status
           /\ device_lease_gauge' = w.lease
           /\ device_info_gauge' = w.info
           /\ IF w.raised
                THEN DeviceFailed /\ idx' = 0 /\ UNCHANGED lastGood
              ELSE IF idx = Len(devices)
                THEN /\ pc' = "portmap"
                     /\ idx' = 0
                     /\ lastGood' = [lastGood EXCEPT !.status = w.status,
                                        !.lease = w.lease, !.info = w.info]
                     /\ polled' = PollOk("device", devices)
                     /\ UNCHANGED failed
              ELSE /\ idx' = idx + 1
                   /\ UNCHANGED <<pc, failed, lastGood, polled>>
    /\ UNCHANGED <<now, deviceScalars, connected_devices_gauge, mappingVars, wifiVars,
                   ipVars, pingVars, speedVars, devices, steps, prev, inflight,
                   completed, snapshot, started>>

\* collect_port_mappings: the path is read and the gauge cleared
PortMapGet(E) ==
    /\ pc = "portmap"
    /\ steps' = Append(steps, "portmap")
    /\ started' = Start("portmap")
    /\ \/ /\ "portmap" \in E.faults
          /\ failed' = failed \cup {"portmap"}
          /\ pc' = "wifi"
          /\ polled' = PollFailed("portmap")
          /\ UNCHANGED <<mappingVars, idx, lastGood, inflight>>
       \/ \E r \in E.pm :
            /\ port_mapping_gauge' = Clear(port_mapping_gauge)
            /\ UNCHANGED failed
            /\ IF Falsy(r)
                 THEN /\ pc' = "wifi"
                      /\ lastGood' = [lastGood EXCEPT !.mappings = Empty]
                      /\ polled' = PollOk("portmap", r)
                      /\ UNCHANGED <<port_mappings, idx, inflight>>
               ELSE /\ pc' = "pmloop"
                    /\ port_mappings' = r[1]
                    /\ idx' = 1
                    /\ inflight' = Begin("portmap")
                    /\ UNCHANGED <<lastGood, polled>>
    /\ UNCHANGED <<now, deviceScalars, deviceFamilies, wifiVars, ipVars, pingVars,
                   speedVars, devices, prev, completed, snapshot>>

\* one iteration of `for mapping in port_mappings`
PortMapStep ==
    /\ pc = "pmloop"
    /\ LET m == port_mappings[idx]
       IN  IF ~m.dict
             THEN /\ failed' = failed \cup {"portmap"}
                  /\ pc' = "wifi"
                  /\ port_mappings' = <<>>
                  /\ idx' = 0
                  /\ inflight' = End("portmap")
                  /\ polled' = PollFailed("portmap")
                  /\ UNCHANGED <<port_mapping_gauge, lastGood>>
           ELSE /\ port_mapping_gauge' = Put(port_mapping_gauge, MappingLabels(m), 1)
                /\ UNCHANGED failed
                /\ IF idx = Len(port_mappings)
                     THEN /\ pc' = "wifi"
                          /\ port_mappings' = <<>>
                          /\ idx' = 0
                          /\ inflight' = End("portmap")
                          /\ lastGood' = [lastGood EXCEPT
                                            !.mappings = port_mapping_gauge']
                          /\ polled' = PollOk("portmap", Some(port_mappings))
                   ELSE /\ idx' = idx + 1
                        /\ UNCHANGED <<pc, port_mappings, inflight, lastGood,
                                       polled>>
    /\ UNCHANGED <<now, deviceScalars, deviceFamilies, wifiVars, ipVars, pingVars,
                   speedVars, devices, steps, prev, completed, snapshot, started>>

\* collect_wifi_stats: the path is read; an empty answer returns before clear()
WifiGet(E) ==
    /\ pc = "wifi"
    /\ steps' = Append(steps, "wifi")
    /\ started' = Start("wifi")
    /\ \/ /\ "wifi" \in E.faults
          /\ failed' = failed \cup {"wifi"}
          /\ pc' = "pubip"
          /\ polled' = PollFailed("wifi")
          /\ UNCHANGED <<wifiVars, idx, lastGood, inflight>>
       \/ \E r \in E.wifi :
            /\ UNCHANGED failed
            /\ IF Falsy(r)
                 THEN /\ pc' = "pubip"
                      /\ lastGood' = [lastGood EXCEPT !.signal = Empty,
                                         !.channel = Empty]
                      /\ polled' = PollOk("wifi", r)
                      /\ UNCHANGED <<wifiVars, idx, inflight>>
               ELSE /\ pc' = "wifiloop"
                    /\ wifi_radio_signal_gauge' = Clear(wifi_radio_signal_gauge)
                    /\ wifi_radio_channel_gauge' = Clear(wifi_radio_channel_gauge)
                    /\ wifi_radios' = r[1]
                    /\ idx' = 1
                    /\ inflight' = Begin("wifi")
                    /\ UNCHANGED <<lastGood, polled>>
    /\ UNCHANGED <<now, deviceScalars, deviceFamilies, mappingVars, ipVars, pingVars,
                   speedVars, devices, prev, completed, snapshot>>

\* one iteration of `for i, radio in enumerate(wifi_radios)`
WifiStep ==
    /\ pc = "wifiloop"
    /\ LET radio == wifi_radios[idx]
           l == <<IntStr(idx - 1)>>
       IN  IF ~radio.dict
             THEN /\ failed' = failed \cup {"wifi"}
                  /\ pc' = "pubip"
                  /\ wifi_radios' = <<>>
                  /\ idx' = 0
                  /\ inflight' = End("wifi")
                  /\ polled' = PollFailed("wifi")
                  /\ UNCHANGED <<wifi_radio_signal_gauge, wifi_radio_channel_gauge,
                                 lastGood>>
           ELSE /\ wifi_radio_signal_gauge' =
                     Put(wifi_radio_signal_gauge, l, Get(radio, "signal_strength", 0))
                /\ wifi_radio_channel_gauge' =
                     Put(wifi_radio_channel_gauge, l, Get(radio, "channel", 0))
                /\ UNCHANGED failed
                /\ IF idx = Len(wifi_radios)
                     THEN /\ pc' = "pubip"
                          /\ wifi_radios' = <<>>
                          /\ idx' = 0
                          /\ inflight' = End("wifi")
                          /\ lastGood' = [lastGood EXCEPT
                                            !.signal = wifi_radio_signal_gauge',
                                            !.channel = wifi_radio_channel_gauge']
                          /\ polled' = PollOk("wifi", Some(wifi_radios))
                   ELSE /\ idx' = idx + 1
                        /\ UNCHANGED <<pc, wifi_radios, inflight, lastGood, polled>>
    /\ UNCHANGED <<now, deviceScalars, deviceFamilies, mappingVars, ipVars, pingVars,
                   speedVars, devices, steps, prev, completed, snapshot, started>>

\* public_ip = await fetch_public_ip(); the info record and the pull times
PublicIp(E) ==
    /\ pc = "pubip"
    /\ steps' = Append(steps, "pubip")
    /\ \E r \in E.ip :
         LET public_ip == FetchPublicIp(r)
         IN  /\ public_ip_info' = IF Truthy(public_ip)
                                    THEN Some([public_ip |-> public_ip[1]])
                                  ELSE public_ip_info
             /\ lastGoodIp' = IF r.kind = "json" /\ Get(r.body, "ip", "") # ""
                                THEN Some(r.body.kv.ip)
                              ELSE lastGoodIp
             /\ failed' = IF r.kind = "json" /\ Get(r.body, "ip", "") # ""
                            THEN failed ELSE failed \cup {"pubip"}
    /\ last_pull_time' = Some(now)
    /\ next_pull_time' = Some(now + COLLECTION_INTERVAL)
    /\ completed' = [completed EXCEPT !["pubip"] = now]
    /\ started' = Start("pubip")
    /\ pc' = "close"
    /\ UNCHANGED <<now, deviceScalars, deviceFamilies, mappingVars, wifiVars, pingVars,
                   speedVars, devices, idx, prev, lastGood, inflight, snapshot,
                   polled>>

\* the end of the `async with` block: collect_sagemcom_metrics returns, or the
\* exception of the session's exit leaves the loop and asyncio.run
SessionClose(E) ==
    /\ pc = "close"
    /\ steps' = Append(steps, "close")
    /\ devices' = <<>>
    /\ inflight' = End("device")
    /\ completed' = [completed EXCEPT !["device"] = now]
    /\ \/ pc' = "ping" /\ UNCHANGED failed
       \/ "close" \in E.faults /\ pc' = "crashed" /\ failed' = failed \cup {"device"}
    /\ UNCHANGED <<now, deviceScalars, deviceFamilies, mappingVars, wifiVars, ipVars,
                   pingVars, speedVars, idx, prev, lastGood, snapshot, started,
                   polled>>

\* await ping_google()
PingGoogle(E) ==
    /\ pc = "ping"
    /\ steps' = Append(steps, "ping")
    /\ \E r \in E.ping :
         /\ probe' = Some(r)
         /\ google_ping_gauge' = PingExport(r)
    /\ completed' = [completed EXCEPT !["ping"] = now]
    /\ started' = Start("ping")
    /\ pc' = "speedcheck"
    /\ UNCHANGED <<now, deviceScalars, deviceFamilies, mappingVars, wifiVars, ipVars,
                   speedVars, devices, idx, failed, prev, lastGood, inflight,
                   snapshot, polled>>

\* run_speedtest() started as a task that the loop does not await
AfterDispatchNoAwait == "sleep"

\* where the loop is once run_speedtest() has been called: it awaits the run
AfterDispatch == "speedtest"

\* current_time = time.time() and the test of the speedtest interval
SpeedtestCheck ==
    /\ pc = "speedcheck"
    /\ current_time' = now
    /\ IF SpeedtestDue(now, last_speedtest_time)
         THEN /\ pc' = AfterDispatch
              /\ steps' = Append(steps, "speedtest")
              /\ inflight' = Begin("speedtest")
              /\ started' = Start("speedtest")
       ELSE /\ pc' = "sleep"
            /\ UNCHANGED <<steps, inflight, started>>
    /\ UNCHANGED <<now, deviceScalars, deviceFamilies, mappingVars, wifiVars, ipVars,
                   pingVars, speedGauges, last_speedtest_time, devices, idx, failed,
                   prev, lastGood, completed, snapshot, polled>>

\* run_speedtest() returns, and last_speedtest_time = current_time
RunSpeedtest(E) ==
    /\ pc = "speedtest"
    /\ \E r \in E.speed :
         /\ IF r.ok
              THEN /\ speedtest_download_gauge' = r.download \div 1000000
                   /\ speedtest_upload_gauge' = r.upload \div 1000000
                   /\ speedtest_ping_gauge' = r.ping
                   /\ UNCHANGED failed
            ELSE /\ failed' = failed \cup {"speedtest"}
                 /\ UNCHANGED speedGauges
         /\ last_speedtest_time' = RecordedAttempt(r, current_time, last_speedtest_time)
    /\ inflight' = End("speedtest")
    /\ completed' = [completed EXCEPT !["speedtest"] = now]
    /\ pc' = "sleep"
    /\ UNCHANGED <<now, deviceScalars, deviceFamilies, mappingVars, wifiVars, ipVars,
                   pingVars, current_time, devices, idx, steps, prev, lastGood,
                   snapshot, started, polled>>

\* await asyncio.sleep(COLLECTION_INTERVAL)
Sleep(E) ==
    /\ pc = "sleep"
    /\ now + COLLECTION_INTERVAL <= E.horizon
    /\ now' = now + COLLECTION_INTERVAL
    /\ pc' = "open"
    /\ UNCHANGED <<deviceScalars, deviceFamilies, mappingVars, wifiVars, ipVars,
                   pingVars, speedVars, devices, idx, steps, failed, prev, lastGood,
                   inflight, completed, snapshot, started, polled>>

\* time passes while an upstream call has not returned
Stall(E) ==
    /\ pc \in E.stall
    /\ now + Quantum <= E.horizon
    /\ now' = now + Quantum
    /\ UNCHANGED <<pc, deviceScalars, deviceFamilies, mappingVars, wifiVars, ipVars,
                   pingVars, speedVars, devices, idx, steps, failed, prev, lastGood,
                   inflight, completed, snapshot, started, polled>>

\* a scrape served by the thread of start_http_server reads the families
Scrape ==
    /\ pc # "crashed"
    /\ snapshot # Families
    /\ snapshot' = Families
    /\ UNCHANGED <<pc, now, deviceScalars, deviceFamilies, mappingVars, wifiVars,
                   ipVars, pingVars, speedVars, devices, idx, steps, failed, prev,
                   lastGood, inflight, completed, started, polled>>

Loop(E) ==
    \/ SessionOpen(E)
    \/ Login(E)
    \/ DeviceInfo(E)
    \/ GetHosts(E)
    \/ HostStep
    \/ PortMapGet(E)
    \/ PortMapStep
    \/ WifiGet(E)
    \/ WifiStep
    \/ PublicIp(E)
    \/ SessionClose(E)
    \/ PingGoogle(E)
    \/ SpeedtestCheck
    \/ RunSpeedtest(E)
    \/ Sleep(E)
    \/ Stall(E)

AllFaults == {"open", "login", "devinfo", "hosts", "portmap", "wifi", "close"}

\* the device answers anything; the other sources answer as usual
EnvDevice ==
    Env(HostLists, DeviceInfos, {NominalMappings}, {NominalRadios}, {NominalLookup},
        {[kind |-> "time", t |-> 1]}, {NominalSpeed}, AllFaults, {"speedtest"},
        MaxPeriods)

Next == Loop(EnvDevice)

Spec == Init /\ [][Next]_vars

\* the network sources answer anything over a long run in which the speedtest may
\* take any time; the device answers as usual or refuses the login
EnvNet ==
    Env({NominalHosts}, {NominalInfo}, {NominalMappings}, {NominalRadios},
        LookupResponses, PingResults, SpeedResults, {"login"}, {"speedtest"},
        MaxPeriodsLong)

NextNet == Loop(EnvNet)

SpecNet == Init /\ [][NextNet]_vars

\* the exporter thread scrapes at any moment of a fault-free run
EnvScrape ==
    Env({NominalHosts, <<NominalHosts[1]>>}, {NominalInfo}, {NominalMappings},
        {NominalRadios}, {NominalLookup}, {[kind |-> "time", t |-> 1]},
        {NominalSpeed}, {}, {"speedtest"}, MaxPeriods)

NextScrape == Loop(EnvScrape) \/ Scrape

SpecScrape == Init /\ [][NextScrape]_vars

\* the port-mapping and Wi-Fi paths answer anything; the rest answers as usual
EnvTables ==
    Env({NominalHosts}, {NominalInfo}, PortMappingResponses, WifiResponses,
        {NominalLookup}, {[kind |-> "time", t |-> 1]}, {NominalSpeed},
        {"portmap", "wifi"}, {"speedtest"}, MaxPeriods)

NextTables == Loop(EnvTables)

SpecTables == Init /\ [][NextTables]_vars

\* the three tables are replaced again and again: hosts that share a label set,
\* tables with twice the same entry, empty and absent tables
ReplaceHostTable ==
    { Host("A", Some("x"), TRUE, Some(10)), Host("A", Some("x"), FALSE, Some(10)),
      Host("B", Some("x"), FALSE, Some(10)) }

EnvReplace ==
    Env(SeqsUpTo(ReplaceHostTable, MaxHosts), {NominalInfo},
        {None} \cup {Some(l) : l \in SeqsUpTo({Mapping("80", TRUE)}, MaxMappings)},
        {None, NominalRadios}, {NominalLookup}, {[kind |-> "time", t |-> 1]},
        {NominalSpeed}, {"hosts"}, {"speedtest"}, MaxPeriods)

NextReplace == Loop(EnvReplace)

SpecReplace == Init /\ [][NextReplace]_vars

\* the steps that the source bounds itself: its own statements, requests.get with
\* timeout=5, ping with timeout=1 and asyncio.sleep. The awaits on the router
\* client and the speedtest run carry no timeout and are not among them.
Bounded(E) ==
    \/ SessionOpen(E)
    \/ HostStep
    \/ PortMapStep
    \/ WifiStep
    \/ PublicIp(E)
    \/ SessionClose(E)
    \/ PingGoogle(E)
    \/ SpeedtestCheck
    \/ Sleep(E)

\* a run in which every upstream call may take any time
EnvLive ==
    Env({NominalHosts}, {NominalInfo}, {NominalMappings}, {NominalRadios},
        {NominalLookup, [kind |-> "exception", body |-> Dict(Empty)]},
        {[kind |-> "time", t |-> 1], [kind |-> "none", t |-> 0]},
        {NominalSpeed}, {"login"}, {"login", "hosts", "speedtest"}, MaxPeriods)

NextLive == Loop(EnvLive)

SpecLive == Init /\ [][NextLive]_vars /\ WF_vars(Bounded(EnvLive))

\* ------------------------------------------------------------------ claims
Range(q) == {q[k] : k \in DOMAIN q}

\* C1: in every reachable state each labelled family holds exactly the series of
\* the most recent successful poll of its collector.
C1_FamiliesAreLastGood == Families = lastGood

\* C2: a poll that ended in failure leaves every family of its collector as the
\* previous poll left it.
C2_FailedPollKeepsFamilies ==
    /\ "device" \in failed =>
         /\ device_status_gauge = prev.status
         /\ device_lease_gauge = prev.lease
         /\ device_info_gauge = prev.info
    /\ "portmap" \in failed => port_mapping_gauge = prev.mappings
    /\ "wifi" \in failed =>
         /\ wifi_radio_signal_gauge = prev.signal
         /\ wifi_radio_channel_gauge = prev.channel

\* C3: in a cycle whose device collector failed, the public-IP lookup and the
\* latency probe have still been attempted by the time the loop goes to sleep.
C3_FailureIsolation ==
    (pc = "sleep" /\ "device" \in failed) => {"pubip", "ping"} \subseteq Range(steps)

\* C4: while a speedtest is in flight and the device collector's next poll is due
\* (one collection period after its last completion), that poll can start.
C4_FastNotBlocked ==
    (inflight["speedtest"] > 0 /\ now >= completed["device"] + COLLECTION_INTERVAL)
        => ENABLED SessionOpen(EnvNet)

\* C5: no collector ever has two polls in flight at once.
C5_NoOverlap == \A c \in Collectors : inflight[c] <= 1

\* a second speedtest poll is in flight after the first one completed, between
\* two polls of the device collector
C5_Witness ==
    /\ inflight["speedtest"] = 1
    /\ completed["speedtest"] > 0
    /\ inflight["device"] = 0
    /\ completed["device"] > completed["speedtest"]

\* C6: right after a successful device poll the device-status family holds
\* exactly one series for each host identifier of the returned table and none
\* for any other identifier.
C6_OneSeriesPerHostId ==
    pc = "portmap" =>
        \A id \in HostIds :
            Cardinality({l \in DOMAIN device_status_gauge : l[1] = id})
                = IF \E k \in 1..Len(devices) : devices[k].id = id THEN 1 ELSE 0

\* the label set a family holds once the poll now in flight has repopulated it
NewLabels ==
    [f \in FamilyNames |->
        IF pc = "hostloop" /\ f = "status"
          THEN {StatusLabels(devices[k]) : k \in 1..Len(devices)}
        ELSE IF pc = "hostloop" /\ f = "lease"
          THEN {<<devices[k].id, m>> : k \in 1..Len(devices),
                    m \in {"lease_start", "lease_duration", "lease_remaining"}}
        ELSE IF pc = "hostloop" /\ f = "info"
          THEN {InfoLabels(devices[k]) : k \in 1..Len(devices)}
        ELSE IF pc = "pmloop" /\ f = "mappings"
          THEN {MappingLabels(port_mappings[k]) : k \in 1..Len(port_mappings)}
        ELSE IF pc = "wifiloop" /\ f \in {"signal", "channel"}
          THEN {<<IntStr(k - 1)>> : k \in 1..Len(wifi_radios)}
        ELSE DOMAIN lastGood[f]]

\* C7: every scrape reads, for each family, the complete label set of the last
\* successful poll or the complete label set of the poll in flight.
C7_ScrapeAtomic ==
    [][snapshot' # snapshot =>
         \A f \in FamilyNames :
             DOMAIN snapshot'[f] \in {DOMAIN lastGood[f], NewLabels[f]}]_vars

\* C8: whatever a collector step raises, the loop goes on.
C8_LoopNeverDies == pc # "crashed"

\* C9: after a probe that returned no round-trip time the exported latency is
\* not-a-number, and after a probe that returned one it is that time in
\* milliseconds.
C9_ProbeSentinel ==
    probe # None =>
        google_ping_gauge =
            IF probe[1].kind = "time" THEN Num(probe[1].t * 1000) ELSE NaN

\* C10: the public-IP info record is that of the most recent successful lookup,
\* and absent while no lookup has succeeded.
C10_PublicIpIsLastGood ==
    public_ip_info =
        IF lastGoodIp = None THEN None ELSE Some([public_ip |-> lastGoodIp[1]])

\* a lookup has just failed after an earlier one had succeeded
C10_Witness ==
    /\ pc = "close"
    /\ "pubip" \in failed
    /\ lastGoodIp # None

\* C11: a poll whose upstream call succeeds with an empty (or absent) table
\* leaves the corresponding family without any series.
C11_EmptyResultEmptiesFamily ==
    [][/\ (pc = "hosts" /\ pc' = "portmap") =>
             /\ device_status_gauge' = Empty
             /\ device_lease_gauge' = Empty
             /\ device_info_gauge' = Empty
       /\ (pc = "portmap" /\ pc' = "wifi" /\ "portmap" \notin failed') =>
             port_mapping_gauge' = Empty
       /\ (pc = "wifi" /\ pc' = "pubip" /\ "wifi" \notin failed') =>
             /\ wifi_radio_signal_gauge' = Empty
             /\ wifi_radio_channel_gauge' = Empty]_vars


\* C12: when a table's poll succeeds with the data its previous poll succeeded
\* with, the families of that table are afterwards what they were before it.
C12_ReplaceIdempotent ==
    [][/\ (/\ pc \in {"hosts", "hostloop"} /\ pc' = "portmap"
           /\ polled["device"] # None /\ polled'["device"] = polled["device"]) =>
             /\ device_status_gauge' = prev.status
             /\ device_lease_gauge' = prev.lease
             /\ device_info_gauge' = prev.info
       /\ (/\ pc \in {"portmap", "pmloop"} /\ pc' = "wifi"
           /\ polled["portmap"] # None /\ polled'["portmap"] = polled["portmap"]) =>
             port_mapping_gauge' = prev.mappings
       /\ (/\ pc \in {"wifi", "wifiloop"} /\ pc' = "pubip"
           /\ polled["wifi"] # None /\ polled'["wifi"] = polled["wifi"]) =>
             /\ wifi_radio_signal_gauge' = prev.signal
             /\ wifi_radio_channel_gauge' = prev.channel]_vars

\* a host table of two hosts has been installed twice in a row
C12_Witness ==
    /\ pc = "portmap"
    /\ polled["device"] # None
    /\ Len(polled["device"][1]) = 2
    /\ prev.status = device_status_gauge
    /\ prev.info = device_info_gauge
    /\ now > StartTime

\* C13: every poll that has started comes to an end, whatever the upstream
\* calls do.
C13_PollsAreBounded ==
    \A c \in Collectors : (inflight[c] > 0) ~> (inflight[c] = 0)

Times(x) == Cardinality({k \in DOMAIN steps : steps[k] = x})

\* C14: when the loop reaches its first sleep, the device collector, the latency
\* probe and the speedtest have each been polled once, and so have the port
\* mappings, the Wi-Fi radios and the public address of a device poll that was
\* not abandoned.
C14_AllDueAtStartup ==
    (pc = "sleep" /\ started["device"] = StartTime) =>
        /\ \A x \in {"open", "ping", "speedtest"} : Times(x) = 1
        /\ \A c \in {"ping", "speedtest"} : started[c] = StartTime
        /\ "device" \notin failed =>
              /\ \A x \in {"login", "devinfo", "hosts", "portmap", "wifi", "pubip"} :
                    Times(x) = 1
              /\ \A c \in {"portmap", "wifi", "pubip"} : started[c] = StartTime

\* the first cycle has polled everything and is about to sleep
C14_Witness ==
    /\ pc = "sleep"
    /\ started["device"] = StartTime
    /\ "device" \notin failed
    /\ completed["speedtest"] >= StartTime
    /\ last_pull_time # None

Period(c) == IF c = "speedtest" THEN speedtest_interval_seconds ELSE COLLECTION_INTERVAL

\* C15: a poll of the device collector, of the latency probe or of the speedtest
\* never starts earlier than one period of that collector after its previous
\* poll came to an end.
C15_NextDueAfterCompletion ==
    [][\A c \in {"device", "ping", "speedtest"} :
          (started'[c] # started[c] /\ completed[c] > 0) =>
              now >= completed[c] + Period(c)]_vars

\* C16: after a successful poll every label set of the host table has one
\* device-status series, carrying the state of the last host with that label
\* set, and every label set of the port-mapping table has one series.
C16_LastWriteWins ==
    /\ (pc = "portmap" /\ polled["device"] # None) =>
          LET hl == polled["device"][1]
          IN  /\ DOMAIN device_status_gauge =
                    {StatusLabels(hl[k]) : k \in DOMAIN hl}
              /\ \A l \in DOMAIN device_status_gauge :
                    LET last == CHOOSE k \in DOMAIN hl :
                                  /\ StatusLabels(hl[k]) = l
                                  /\ \A j \in DOMAIN hl :
                                        StatusLabels(hl[j]) = l => j <= k
                    IN  device_status_gauge[l] = Bit(hl[last].active)
    /\ (pc = "wifi" /\ polled["portmap"] # None /\ ~Falsy(polled["portmap"][1])) =>
          LET ml == polled["portmap"][1][1]
          IN  /\ DOMAIN port_mapping_gauge = {MappingLabels(ml[k]) : k \in DOMAIN ml}
              /\ \A l \in DOMAIN port_mapping_gauge : port_mapping_gauge[l] = 1

\* a host table has named one label set twice, active first and inactive last
C16_Witness ==
    /\ pc = "portmap"
    /\ polled["device"] # None
    /\ Len(polled["device"][1]) = 2
    /\ StatusLabels(polled["device"][1][1]) = StatusLabels(polled["device"][1][2])
    /\ polled["device"][1][1].active
    /\ ~polled["device"][1][2].active
    /\ device_status_gauge = [l \in {StatusLabels(polled["device"][1][2])} |-> 0]

\* C17: once the device poll has left the host loop, with or without an error,
\* the connected-devices count is the number of device-status series at 1.
C17_CountMatchesTable ==
    pc \in {"portmap", "close"} =>
        connected_devices_gauge =
            Cardinality({l \in DOMAIN device_status_gauge : device_status_gauge[l] = 1})

Rank(x) ==
    CASE x = "open" -> 0 [] x = "login" -> 1 [] x = "devinfo" -> 2
      [] x = "hosts" -> 3 [] x = "portmap" -> 4 [] x = "wifi" -> 5
      [] x = "pubip" -> 6 [] x = "close" -> 7 [] x = "ping" -> 8
      [] x = "speedtest" -> 9
DataCalls == {"devinfo", "hosts", "portmap", "wifi"}

\* C18: every call of a cycle comes after the opening of a new session and
\* later than the calls that precede it in the order login, device info, hosts,
\* port mappings, Wi-Fi, public IP, latency probe, speedtest; a call for device
\* data is made only after the login of that cycle and only while nothing of
\* the device poll has failed.
C18_SessionOrdering ==
    [][steps' # steps =>
          /\ steps'[1] = "open"
          /\ \A i, j \in DOMAIN steps' : i < j => Rank(steps'[i]) < Rank(steps'[j])
          /\ steps'[Len(steps')] \in DataCalls =>
                /\ Len(steps) >= 2
                /\ steps[2] = "login"
                /\ "device" \notin failed]_vars

\* a cycle whose login failed has gone on with the probe and the speedtest
C18_Witness ==
    /\ pc = "sleep"
    /\ "device" \in failed
    /\ steps = <<"open", "login", "close", "ping", "speedtest">>

\* C19: a speedtest that fails leaves the three exported values as they were
\* and one that succeeds sets all three; either way the time of the attempt is
\* recorded, a cycle attempts the speedtest at most once, and an attempt is
\* never started earlier than one benchmark period after the previous one.
C19_SpeedtestAllOrNothing ==
    [][/\ (pc = "speedtest" /\ pc' = "sleep") =>
             /\ "speedtest" \in failed' => UNCHANGED speedGauges
             /\ "speedtest" \notin failed' =>
                   /\ speedtest_download_gauge' > 0
                   /\ speedtest_upload_gauge' > 0
                   /\ speedtest_ping_gauge' > 0
             /\ last_speedtest_time' = started["speedtest"]
       /\ Times("speedtest")' <= 1
       /\ (started'["speedtest"] # started["speedtest"] /\ started["speedtest"] > 0) =>
             now >= started["speedtest"] + speedtest_interval_seconds]_vars

\* a failed speedtest after a successful one: the earlier values are exported
C19_Witness ==
    /\ pc = "sleep"
    /\ "speedtest" \in failed
    /\ speedtest_download_gauge > 0
    /\ last_speedtest_time > StartTime
====
